---- MODULE Spec2Model ----
(***************************************************************************)
(* Model of the eloss crate: the table interpolator                        *)
(* (src/src/interpolation.rs) and the fixed-step energy-loss integrator    *)
(* (src/src/lib.rs).                                                       *)
(*                                                                         *)
(* Numbers.  The code computes in f64.  TLC has 32-bit integers, so f64 is *)
(* modelled by a binary floating-point format of the same shape with a     *)
(* narrower significand: a number is an integer count of the smallest      *)
(* subnormal 2^-FracBits, it is representable when it fits MantissaBits    *)
(* significant bits, and every arithmetic operation returns the exact      *)
(* result rounded to the nearest representable number, ties to even.       *)
(* The rounding effects the properties below rest on occur in IEEE doubles  *)
(* as well; the f64 inputs that show them are quoted with each property.   *)
(***************************************************************************)
EXTENDS Integers, Sequences, FiniteSets, TLC

\* ------------------------------------------------------------------ bounds
MantissaBits == 4      \* significand width of the model float (f64: 53)
FracBits == 8          \* the smallest subnormal is 2^-FracBits (f64: 2^-1074)
UsizeBits == 16        \* width of usize in the model (the targets: 64)
StepsPerCall == 5      \* 1 / step_size (the code: 1e-5, that is 100000)
MaxLen == 3            \* longest table
MaxSteps == 9          \* loop iterations followed before the model stops counting

\* ------------------------------------------------------- f64 arithmetic
RECURSIVE Pow2(_)
Pow2(n) == IF n = 0 THEN 1 ELSE 2 * Pow2(n - 1)

One == Pow2(FracBits)

\* numbers below this limit have spacing 1; above it the spacing doubles
\* with every binade
MantLimit == Pow2(MantissaBits)

Abs(a) == IF a < 0 THEN -a ELSE a

\* spacing of the representable numbers around n/d (n >= 0, d > 0):
\* the least power of two 2^j with n/d < 2^MantissaBits * 2^j
RECURSIVE Ulp(_, _, _)
Ulp(n, d, u) == IF n < MantLimit * u * d THEN u ELSE Ulp(n, d, 2 * u)

\* n/d rounded to the nearest integer, ties to the even one (n >= 0, d > 0)
RoundHalfEven(n, d) ==
    LET q == n \div d
        r == n % d
    IN  IF 2 * r < d THEN q
        ELSE IF 2 * r > d THEN q + 1
        ELSE IF q % 2 = 0 THEN q ELSE q + 1

\* the rational n/d (d > 0) rounded to the nearest representable number
Round(n, d) ==
    LET a == Abs(n)
        u == Ulp(a, d, 1)
        m == RoundHalfEven(a, d * u) * u
    IN  IF n < 0 THEN -m ELSE m

IsRep(k) == Round(k, 1) = k

FAdd(a, b) == Round(a + b, 1)
FSub(a, b) == Round(a - b, 1)
FMul(a, b) == Round(a * b, One)
FDiv(a, b) == IF b < 0 THEN Round(-(a * One), -b) ELSE Round(a * One, b)

\* the literal 1e-5 of the code, scaled: the representable number nearest to
\* 1/StepsPerCall (like 1e-5, it is not a power of two and is rounded)
step_size == Round(One, StepsPerCall)

\* ------------------------------------------------------------ the state
VARIABLES
    overflow_checks, \* the build: TRUE when integer overflow panics (debug)
    stop,            \* the table of the projectile/target pair: <<xs, ys>>
    pc,              \* "idle", "interpolated", "loop", "returned", "panicked"
    x,               \* the query of the last interpolate call
    result,          \* what that call returned
    e, mass, thick,  \* the arguments of the eloss call (mass: MASSES[proj])
    energy_u, rem_thick, d_thick,   \* the locals of eloss
    steps,           \* iterations of the while loop performed so far
    queried,         \* the stopping powers the loop has read from the table
    ret              \* the value eloss returned

vars == <<overflow_checks, stop, pc, x, result, e, mass, thick,
          energy_u, rem_thick, d_thick, steps, queried, ret>>

\* --------------------------------------------------- InterpolationResult
InterpolatedValue(v) == [tag |-> "InterpolatedValue", v |-> v]
ExtrapolatedValue(v) == [tag |-> "ExtrapolatedValue", v |-> v]
NoValue == [tag |-> "NoValue", v |-> 0]
\* not a value of the enum: the call panicked and returned nothing
Panicked == [tag |-> "panic", v |-> 0]

is_interp(r) == r.tag = "InterpolatedValue"
is_extrap(r) == r.tag = "ExtrapolatedValue"
is_value(r) == r.tag \in {"InterpolatedValue", "ExtrapolatedValue"}

\* Option<f64>
None == [some |-> FALSE, v |-> 0]
Some(v) == [some |-> TRUE, v |-> v]

to_value(r) == IF is_value(r) THEN Some(r.v) ELSE None

\* slice::get with a 0-based index
Get(s, i) == IF i >= 0 /\ i < Len(s) THEN Some(s[i + 1]) ELSE None

\* usize subtraction where the build does not check overflow: it wraps
UsizeRange == Pow2(UsizeBits)

WrappingSub(a, b) == (a - b) % UsizeRange

\* a search whose comparison never answers Equal: every query is an Err
binary_search_by_no_equal(xs, q) ==
    [ok |-> FALSE, i |-> Cardinality({i \in 1..Len(xs) : xs[i] < q})]

\* slice::binary_search_by on a strictly ascending slice: Ok(i) with
\* xs[i] = x, or Err(i) with i the number of elements below x
binary_search_by(xs, q) ==
    IF \E i \in 1..Len(xs) : xs[i] = q
    THEN [ok |-> TRUE, i |-> (CHOOSE i \in 1..Len(xs) : xs[i] = q) - 1]
    ELSE [ok |-> FALSE, i |-> Cardinality({i \in 1..Len(xs) : xs[i] < q})]

\* (y1 - y0) / (x1 - x0) * (x - xb) + yb, evaluated left to right in f64
Linear(y1, y0, x1, x0, q, xb, yb) ==
    FAdd(FMul(FDiv(FSub(y1, y0), FSub(x1, x0)), FSub(q, xb)), yb)

\* Err(0): the query is below the first sample
BelowRange(q, xs, ys) ==
    LET x0 == Get(xs, 0)
        y0 == Get(ys, 0)
        x1 == Get(xs, 1)
        y1 == Get(ys, 1)
    IN  IF ~x0.some \/ ~y0.some THEN Panicked
        ELSE IF x1.some /\ y1.some
             THEN ExtrapolatedValue(Linear(y1.v, y0.v, x1.v, x0.v, q, x0.v, y0.v))
             ELSE ExtrapolatedValue(y0.v)

\* above the range the last value is held instead of the edge line projected
AboveRange_flat(q, xs, ys, i) ==
    IF i < 2 /\ overflow_checks THEN Panicked ELSE ExtrapolatedValue(ys[i])

\* Err(len): the query is above the last sample.  i - 2 is computed in usize
\* before the get: for a one-point table (i = 1) it overflows, which panics
\* in a build with overflow checks and wraps to a huge index otherwise.
AboveRange(q, xs, ys, i) ==
    LET x1 == Get(xs, i - 1)
        y1 == Get(ys, i - 1)
        i2 == WrappingSub(i, 2)
        x0 == Get(xs, i2)
        y0 == Get(ys, i2)
    IN  IF ~x1.some \/ ~y1.some THEN Panicked
        ELSE IF i < 2 /\ overflow_checks THEN Panicked
        ELSE IF x0.some /\ y0.some
             THEN ExtrapolatedValue(Linear(y1.v, y0.v, x1.v, x0.v, q, x1.v, y1.v))
             ELSE ExtrapolatedValue(y1.v)

\* between two samples the lower sample's value is returned unchanged
Interior_step(q, xs, ys, i) == InterpolatedValue(ys[i])

\* Err(i), 0 < i < len: the query is between samples i-1 and i
Interior(q, xs, ys, i) ==
    LET x0 == Get(xs, i - 1)
        y0 == Get(ys, i - 1)
        x1 == Get(xs, i)
        y1 == Get(ys, i)
    IN  IF ~x0.some \/ ~y0.some \/ ~x1.some \/ ~y1.some THEN Panicked
        ELSE InterpolatedValue(Linear(y1.v, y0.v, x1.v, x0.v, q, x0.v, y0.v))

interpolate(q, xs, ys) ==
    IF Len(xs) = 0 THEN NoValue
    ELSE LET r == binary_search_by(xs, q)
         IN  IF r.ok
             THEN LET y == Get(ys, r.i)
                  IN  IF y.some THEN InterpolatedValue(y.v) ELSE Panicked
             ELSE IF r.i = 0 THEN BelowRange(q, xs, ys)
             ELSE IF r.i = Len(xs) THEN AboveRange(q, xs, ys, r.i)
             ELSE Interior(q, xs, ys, r.i)

\* ------------------------------------------------------------ the inputs
\* sample coordinates and sample values of the tables (f64 numbers, in units
\* of 2^-FracBits: 256 is 1.0 with FracBits = 8)
XVals == {128, 256, 384, 512}
YVals == {0, 64, 256, 288}

\* the strictly ascending sequences over S of length n
RECURSIVE AscendingSeqs(_, _)
AscendingSeqs(S, n) ==
    IF n = 0 THEN {<<>>}
    ELSE LET shorter == AscendingSeqs(S, n - 1)
         IN  {Append(s, v) : s \in shorter, v \in S} \ 
             {t \in {Append(s, v) : s \in shorter, v \in S} :
                 Len(t) > 1 /\ t[Len(t) - 1] >= t[Len(t)]}

\* STOPPING_POWERS: the tables a projectile/target pair can be registered
\* with: xs strictly ascending, ys of the same length
Tables ==
    UNION {{<<xs, ys>> : xs \in AscendingSeqs(XVals, n), ys \in [1..n -> YVals]}
           : n \in 0..MaxLen}

\* MASSES: the masses of the projectiles (1.0 and 1.5)
MASSES == {256, 384}

\* arguments of interpolate and eloss
Queries == {64, 128, 192, 256, 320, 384, 448, 512, 640}
Energies == {208, 512, 1024}
Thicknesses == {0, 1, 256, 384, 512}

\* ------------------------------------------------------------- eloss
\* the loop condition, lib.rs line 74
LoopCond(u, rem) == rem > 0 /\ u > 0

\* the per-step loss is added to the specific energy instead of subtracted
StepEnergy_gain(u, s, d, m) == FAdd(u, FDiv(FMul(s, d), m))

\* the per-step loss is not divided by the mass
StepEnergy_no_mass(u, s, d, m) == FSub(u, FMul(s, d))

\* one iteration's new energy_u, lines 76-77
StepEnergy(u, s, d, m) == FSub(u, FDiv(FMul(s, d), m))

\* one iteration's new rem_thick, line 78
StepThick(rem, d) == FSub(rem, d)

\* the energy the projectile has left is returned instead of the energy lost
Loss_remaining(e0, u, m) == FMul(u, m)

\* the returned value, line 81
Loss(e0, u, m) == FSub(e0, FMul(u, m))

\* the while loop run to its end from iteration k: the final energy_u, and
\* whether every stopping power read was non-negative ("running": the loop
\* was still running after MaxSteps iterations)
RECURSIVE eloss_loop(_, _, _, _, _, _, _)
eloss_loop(u, rem, d, m, tbl, k, nonneg) ==
    IF ~LoopCond(u, rem) THEN [st |-> "returned", u |-> u, nonneg |-> nonneg]
    ELSE IF k >= MaxSteps THEN [st |-> "running", u |-> u, nonneg |-> nonneg]
    ELSE LET s == to_value(interpolate(u, tbl[1], tbl[2]))
         IN  IF ~s.some THEN [st |-> "panicked", u |-> u, nonneg |-> nonneg]
             ELSE eloss_loop(StepEnergy(u, s.v, d, m), StepThick(rem, d), d, m,
                             tbl, k + 1, nonneg /\ s.v >= 0)

\* eloss as a function of its arguments (tbl and m: what proj and targ select)
eloss(e0, m, tbl, t) ==
    LET r == eloss_loop(FDiv(e0, m), t, FMul(t, step_size), m, tbl, 0, TRUE)
    IN  [st |-> r.st, ret |-> Loss(e0, r.u, m), nonneg |-> r.nonneg]

Init ==
    /\ overflow_checks \in BOOLEAN
    /\ stop \in Tables
    /\ pc = "idle"
    /\ x = 0
    /\ result = NoValue
    /\ e = 0
    /\ mass = 0
    /\ thick = 0
    /\ energy_u = 0
    /\ rem_thick = 0
    /\ d_thick = 0
    /\ steps = 0
    /\ queried = {}
    /\ ret = 0

\* a call of interpolate on the table
Interpolate ==
    /\ pc = "idle"
    /\ \E q \in Queries :
          /\ x' = q
          /\ result' = interpolate(q, stop[1], stop[2])
    /\ pc' = "interpolated"
    /\ UNCHANGED <<overflow_checks, stop, e, mass, thick, energy_u, rem_thick,
                   d_thick, steps, queried, ret>>

\* eloss up to the loop, lines 67-73
ElossEnter ==
    /\ pc = "idle"
    /\ \E e0 \in Energies, m \in MASSES, t \in Thicknesses :
          /\ e' = e0
          /\ mass' = m
          /\ thick' = t
          /\ energy_u' = FDiv(e0, m)
          /\ rem_thick' = t
          /\ d_thick' = FMul(t, step_size)
    /\ steps' = 0
    /\ queried' = {}
    /\ pc' = "loop"
    /\ UNCHANGED <<overflow_checks, stop, x, result, ret>>

\* one iteration of the while loop, lines 74-79
ElossStep ==
    /\ pc = "loop"
    /\ LoopCond(energy_u, rem_thick)
    /\ steps < MaxSteps
    /\ LET s == to_value(interpolate(energy_u, stop[1], stop[2]))
       IN  /\ s.some
           /\ energy_u' = StepEnergy(energy_u, s.v, d_thick, mass)
           /\ rem_thick' = StepThick(rem_thick, d_thick)
           /\ queried' = queried \cup {s.v}
    /\ steps' = steps + 1
    /\ UNCHANGED <<overflow_checks, stop, pc, x, result, e, mass, thick,
                   d_thick, ret>>

\* the iteration panics: interpolate panicked, or unwrap met None, line 75
ElossPanic ==
    /\ pc = "loop"
    /\ LoopCond(energy_u, rem_thick)
    /\ steps < MaxSteps
    /\ ~to_value(interpolate(energy_u, stop[1], stop[2])).some
    /\ pc' = "panicked"
    /\ UNCHANGED <<overflow_checks, stop, x, result, e, mass, thick, energy_u,
                   rem_thick, d_thick, steps, queried, ret>>

\* the loop ends and eloss returns, line 81
ElossReturn ==
    /\ pc = "loop"
    /\ ~LoopCond(energy_u, rem_thick)
    /\ ret' = Loss(e, energy_u, mass)
    /\ pc' = "returned"
    /\ UNCHANGED <<overflow_checks, stop, x, result, e, mass, thick, energy_u,
                   rem_thick, d_thick, steps, queried>>

Next == Interpolate \/ ElossEnter \/ ElossStep \/ ElossPanic \/ ElossReturn

Spec == Init /\ [][Next]_vars

\* ------------------------------------------------- claims: interpolate
\* the table of the call and its length
NPoints == Len(stop[1])

\* the f64 value of y0 + (y1 - y0) / (x1 - x0) * (q - x0)
OnLine(x0, y0, x1, y1, q) ==
    FAdd(y0, FMul(FDiv(FSub(y1, y0), FSub(x1, x0)), FSub(q, x0)))

\* C1: a query at a sample coordinate xs[i] returns InterpolatedValue(ys[i])
\* exactly (is_interp, not is_extrap, to_value = ys[i]), at the first and
\* last sample and for a one-point table too.
C1_ExactHit ==
    pc = "interpolated" =>
        \A i \in 1..NPoints :
            stop[1][i] = x =>
                /\ result = InterpolatedValue(stop[2][i])
                /\ is_interp(result)
                /\ ~is_extrap(result)
                /\ to_value(result) = Some(stop[2][i])

C1_Witness ==
    /\ pc = "interpolated"
    /\ NPoints = 3
    /\ x = stop[1][3]
    /\ result = InterpolatedValue(stop[2][3])

\* C2: with at least two points, a query below xs[0] returns
\* ExtrapolatedValue of the line through the first two points and a query
\* above xs[last] ExtrapolatedValue of the line through the last two points;
\* a query outside [xs[0], xs[last]] is never tagged Interpolated.
C2_EdgeExtrapolation ==
    (pc = "interpolated" /\ NPoints >= 2) =>
        LET n == NPoints
        IN  /\ x < stop[1][1] =>
                  result = ExtrapolatedValue(
                      OnLine(stop[1][1], stop[2][1], stop[1][2], stop[2][2], x))
            /\ x > stop[1][n] =>
                  result = ExtrapolatedValue(
                      FAdd(stop[2][n],
                           FMul(FDiv(FSub(stop[2][n], stop[2][n - 1]),
                                     FSub(stop[1][n], stop[1][n - 1])),
                                FSub(x, stop[1][n]))))
            /\ (x < stop[1][1] \/ x > stop[1][n]) => ~is_interp(result)

C2_Witness ==
    /\ pc = "interpolated"
    /\ NPoints >= 2
    /\ x > stop[1][NPoints]
    /\ is_extrap(result)
    /\ result.v # stop[2][NPoints]

\* C3: on a one-point table xs = [a], ys = [b] a query at a returns
\* InterpolatedValue(b), every other query, below a or above a, returns
\* ExtrapolatedValue(b), and no query fails.
\* (interpolate(1.0, &[0.0], &[1.0]) panics where overflow is checked.)
C3_SinglePoint ==
    (pc = "interpolated" /\ NPoints = 1) =>
        /\ x = stop[1][1] => result = InterpolatedValue(stop[2][1])
        /\ x # stop[1][1] => result = ExtrapolatedValue(stop[2][1])

\* C4 as claimed: a query strictly between adjacent samples returns
\* InterpolatedValue(v), v on the line through the two samples, and v
\* strictly between the two sample values when the segment is monotonic
\* (read in the claim's favour: the two sample values differ).
\* (f64: xs = [0, 1], ys = [1, 1 + 2^-52], x = 0.5 returns 1.0.)
C4_StrictlyBetween ==
    pc = "interpolated" =>
        \A i \in 1..(NPoints - 1) :
            (stop[1][i] < x /\ x < stop[1][i + 1]) =>
                LET y0 == stop[2][i]
                    y1 == stop[2][i + 1]
                IN  /\ result = InterpolatedValue(
                           OnLine(stop[1][i], y0, stop[1][i + 1], y1, x))
                    /\ (y0 < y1 \/ y0 > y1) =>
                           \/ y0 < result.v /\ result.v < y1
                           \/ y1 < result.v /\ result.v < y0

\* C4 as amended: the query returns InterpolatedValue(v) with v the f64 value
\* of ys[i] + (ys[i+1]-ys[i])/(xs[i+1]-xs[i]) * (x-xs[i]); on a flat segment
\* v is the common sample value.
C4_Interior ==
    pc = "interpolated" =>
        \A i \in 1..(NPoints - 1) :
            (stop[1][i] < x /\ x < stop[1][i + 1]) =>
                LET y0 == stop[2][i]
                    y1 == stop[2][i + 1]
                IN  /\ result = InterpolatedValue(
                           OnLine(stop[1][i], y0, stop[1][i + 1], y1, x))
                    /\ y0 = y1 => result.v = y0

C4_Witness ==
    /\ pc = "interpolated"
    /\ NPoints = 3
    /\ stop[1][2] < x
    /\ x < stop[1][3]
    /\ is_interp(result)
    /\ stop[2][2] < result.v
    /\ result.v < stop[2][3]

\* C5: interpolate never raises: every call on a well-formed table returns a
\* classified result, and the result is NoValue exactly when the table is
\* empty.
C5_NeverRaises ==
    pc = "interpolated" =>
        /\ result # Panicked
        /\ (~is_interp(result) /\ ~is_extrap(result) /\ ~is_value(result))
               <=> NPoints = 0

\* ------------------------------------------------------- claims: eloss
\* C6: for fixed projectile, target and energy and a stopping power that is
\* non-negative at every energy queried, the loss does not decrease when the
\* thickness grows: thick1 <= thick2 implies eloss(thick1) <= eloss(thick2).
\* (f64, stopping power 1.0, mass 33.967867012, e = 54.17: thick 100.0
\* returns 54.17099999996 and thick 120.0 returns 54.17040000003.)
C6_MonotoneInThickness ==
    (pc = "returned" /\ \A s \in queried : s >= 0) =>
        \A t1 \in Thicknesses :
            t1 <= thick =>
                LET r1 == eloss(e, mass, stop, t1)
                IN  (r1.st = "returned" /\ r1.nonneg) => r1.ret <= ret

\* the loss eloss returns for thickness 0: e - (e / mass) * mass in f64
ZeroThicknessLoss == Loss(e, FDiv(e, mass), mass)

Decreasing(ys) == \A i \in 1..(Len(ys) - 1) : ys[i] > ys[i + 1]

\* C7 as claimed: the returned loss is >= 0 whenever the table is
\* monotonically decreasing in energy, energies outside the table range
\* included.  Stated for the calls whose energy survives the division and
\* multiplication by the mass unrounded, so that the rounding of C9 plays no
\* part.  (f64: xs = [0.5, 1.0], ys = [40, 20], mass 33.967867012, e = 54.17,
\* thick 1.0 returns -7.2298.)
C7_NonNegativeLoss ==
    (pc = "returned" /\ NPoints >= 2 /\ Decreasing(stop[2])
        /\ ZeroThicknessLoss = 0) => ret >= 0

\* C7 as amended: whenever the stopping power read at every queried energy is
\* non-negative, the returned loss is at least the loss returned for
\* thickness 0, e - (e / mass) * mass (zero up to rounding).
C7_LossAtLeastZeroThickness ==
    (pc = "returned" /\ \A s \in queried : s >= 0) => ret >= ZeroThicknessLoss

C7_Witness ==
    /\ pc = "returned"
    /\ NPoints >= 2
    /\ Decreasing(stop[2])
    /\ FDiv(e, mass) > stop[1][NPoints]
    /\ steps > 0
    /\ \A s \in queried : s >= 0
    /\ ret > 0

\* u lowered k times by the per-step loss c, each subtraction in f64
RECURSIVE Lowered(_, _, _)
Lowered(u, c, k) == IF k = 0 THEN u ELSE Lowered(FSub(u, c), c, k - 1)

C9_ZeroThickness ==
    (pc = "returned" /\ thick = 0 /\ NPoints >= 1) =>
        /\ ret = 0
        /\ steps = 0
        /\ queried = {}

\* C10: for thick > 0 and e > 0 the step d_thick = thick * step_size is
\* fixed through the loop, the loop performs at most 1/step_size
\* iterations, and exactly that many, leaving rem_thick = 0, when it is not
\* ended by energy_u <= 0.  Stated for the calls whose step d_thick is not
\* rounded to 0 (with d_thick = 0, f64: thick = 1e-320, the loop does not
\* advance at all).  (f64: thick = 1.0 runs 100001 iterations and ends with
\* rem_thick = -9.999998e-06.)
C10_FixedStepCount ==
    (pc \in {"loop", "returned"} /\ thick > 0 /\ d_thick > 0) =>
        /\ d_thick = FMul(thick, step_size)
        /\ steps <= StepsPerCall
        /\ (pc = "returned" /\ energy_u > 0) =>
               (steps = StepsPerCall /\ rem_thick = 0)

\* C11 as claimed: for e > 0, mass > 0 and thick > 0 the loop ends with
\* energy_u <= 0 (the particle stopped inside the target) if and only if the
\* returned loss is >= e; a loop ended by the thickness with energy_u > 0
\* returns a loss strictly below e.  Stated for the calls that read only
\* non-negative stopping powers.
\* (f64: stopping power 1.0, mass 33.973762491, e = 3.000000000004528,
\* thick 3.0 ends after 100000 iterations with energy_u = 1.6e-18 > 0 and
\* returns 3.000000000004528 = e.)
C11_RangeOutDetectable ==
    (pc = "returned" /\ thick > 0 /\ \A s \in queried : s >= 0) =>
        (energy_u <= 0 <=> ret >= e)

\* C11 as amended: a loop ended by energy_u <= 0 returns a loss >= e, so a
\* returned loss below e means the loop ended by the thickness with
\* energy_u > 0 (the converse does not hold).
C11_RangeOutGivesFullLoss ==
    (pc = "returned" /\ thick > 0) =>
        /\ energy_u <= 0 => ret >= e
        /\ ret < e => (energy_u > 0 /\ rem_thick <= 0)

C11_Witness ==
    /\ pc = "returned"
    /\ thick > 0
    /\ steps > 1
    /\ energy_u < 0
    /\ rem_thick > 0
    /\ ret > e

\* every number the program holds is a representable one
NumbersRepresentable ==
    /\ \A v \in {x, result.v, e, mass, thick, energy_u, rem_thick, d_thick, ret} :
           IsRep(v)
    /\ \A i \in 1..NPoints : IsRep(stop[1][i]) /\ IsRep(stop[2][i])

\* the two forms of eloss agree
FunctionalFormAgrees ==
    pc = "returned" =>
        eloss(e, mass, stop, thick) =
            [st |-> "returned", ret |-> ret, nonneg |-> \A s \in queried : s >= 0]

====
